---- MODULE Spec2Model ----
(***************************************************************************)
(* Model of the A2A (Agent-to-Agent) JSON-RPC routes of the Pottery Expert *)
(* agent:                                                                  *)
(*   src/src/mastra/routes/a2a-pottery-route.ts   (a2aPotteryRoute)        *)
(*   src/src/mastra/agents/a2aAgentRoute.ts       (a2aAgentRoute)          *)
(*                                                                         *)
(* A handler invocation is a slot h of Handlers.  Its locals are the       *)
(* h-components of the variables; the asynchronous steps of a handler      *)
(* (await agent.generate, await agent.stream, for await chunk, the         *)
(* waitUntil background task) are the points where other invocations may   *)
(* interleave.                                                             *)
(*                                                                         *)
(* JavaScript values: a JSON object is a record whose DOMAIN is its set of *)
(* members; scalars are strings, with the markers Undefined / Null / Zero  *)
(* for the values undefined, null and 0.  A text is a sequence of segments *)
(* (records), '' being the empty sequence.                                 *)
(***************************************************************************)
EXTENDS Integers, Sequences, FiniteSets, TLC

\* ------------------------------------------------------------------ bounds
NumHandlers == 2
MaxChunks == 2
MaxMatches == 2

\* ------------------------------------------------------- JavaScript values
Undefined == "<undefined>"
Null == "<null>"
Zero == "<0>"
EmptyString == ""
False == "<false>"
True == "<true>"

Falsy == {Undefined, Null, Zero, EmptyString, False}

Truthy(v) == v \notin Falsy

\* a || b
Or(a, b) == IF Truthy(a) THEN a ELSE b

\* new Date().toISOString()
Timestamp == "<iso-timestamp>"

\* Array.prototype.join('\n') over a sequence of texts
NewLine == [nl |-> TRUE]

RECURSIVE JoinLines(_)
JoinLines(texts) ==
  IF Len(texts) = 0 THEN <<>>
  ELSE IF Len(texts) = 1 THEN texts[1]
  ELSE texts[1] \o <<NewLine>> \o JoinLines(Tail(texts))

\* randomUUID(): the k-th UUID drawn by invocation h.  Every draw of every
\* live invocation is a different, non-empty string that no client sent.
UuidPool ==
  << "uuid-01", "uuid-02", "uuid-03", "uuid-04", "uuid-05", "uuid-06",
     "uuid-07", "uuid-08", "uuid-09", "uuid-10", "uuid-11", "uuid-12",
     "uuid-13", "uuid-14", "uuid-15", "uuid-16" >>

UuidsPerCall == 4

randomUUID(h, k) == UuidPool[(h - 1) * UuidsPerCall + k]

Handlers == 1 .. NumHandlers

\* ------------------------------------------------------------ request data
\* A text is a sequence of segments; Word(w) is the one-word text w.
Word(w) == << [word |-> w] >>

\* A message part {kind, text?, data?}.  A part without text carries <<>>:
\* join() and the truthiness tests treat undefined and '' alike.
\* part.data: undefined, a non-array value, or an array of items {kind, text}
NoData == [kind |-> "undefined", items |-> <<>>]
DataObject == [kind |-> "object", items |-> <<>>]
DataArray(items) == [kind |-> "array", items |-> items]
DataItem(kind, text) == [kind |-> kind, text |-> text]

TextPart(t) == [kind |-> "text", text |-> t, data |-> NoData]
DataPart(d) == [kind |-> "data", text |-> <<>>, data |-> d]
FilePart == [kind |-> "file", text |-> <<>>, data |-> NoData]

\* msg.parts: undefined, or an array of parts
NoParts == [kind |-> "undefined", items |-> <<>>]
Parts(items) == [kind |-> "array", items |-> items]

\* A message object, the JSON value null, or no value at all
Message(role, parts) == [kind |-> "object", role |-> role, parts |-> parts]
NullMessage == [kind |-> "null"]
NoMessage == [kind |-> "undefined"]

\* params.messages: undefined, a truthy non-array, or an array
NoMessages == [kind |-> "undefined", items |-> <<>>]
NotAnArray == [kind |-> "notArray", items |-> <<>>]
Messages(items) == [kind |-> "array", items |-> items]

UserMsg(w) == Message("user", Parts(<< TextPart(Word(w)) >>))
AgentMsg(w) == Message("agent", Parts(<< TextPart(Word(w)) >>))

\* params: undefined (also standing for null: `params || {}`), or an object.
\* a2aPotteryRoute reads message, messages, id, sessionId, historyLength and
\* metadata.userId; a2aAgentRoute reads message, messages, contextId, taskId
\* and configuration {blocking, pushNotificationConfig.url}.
\* historyLength 0 stands for an absent one too: both are falsy.
\* blocking is True, False, Null or Undefined (the default, true, applies).
NoParams ==
  [kind |-> "undefined", message |-> NoMessage, messages |-> NoMessages,
   id |-> Undefined, sessionId |-> Undefined, historyLength |-> 0,
   userId |-> Undefined, contextId |-> Undefined, taskId |-> Undefined,
   blocking |-> Undefined, webhookUrl |-> Undefined]

Params(message, messages, id, sessionId, historyLength, userId) ==
  [NoParams EXCEPT !.kind = "object", !.message = message,
                   !.messages = messages, !.id = id,
                   !.sessionId = sessionId,
                   !.historyLength = historyLength, !.userId = userId]

AgentParams(message, messages, contextId, taskId, blocking, webhookUrl) ==
  [NoParams EXCEPT !.kind = "object", !.message = message,
                   !.messages = messages, !.contextId = contextId,
                   !.taskId = taskId, !.blocking = blocking,
                   !.webhookUrl = webhookUrl]

\* The request: the route that serves it, the :agentId path parameter and
\* the body.  A body is text that does not parse, the JSON value null, or
\* an object.
Request(route, agentId, bodyKind, jsonrpc, id, method, params) ==
  [route |-> route, agentId |-> agentId, bodyKind |-> bodyKind,
   jsonrpc |-> jsonrpc, id |-> id, method |-> method, params |-> params,
   executionCtx |-> TRUE]

\* The same request on a runtime without an ExecutionContext, where reading
\* c.executionCtx throws
WithoutExecutionCtx(r) == [r EXCEPT !.executionCtx = FALSE]

\* The routes: both files register POST /a2a/agent/:agentId
PotteryRoute == "a2a-pottery-route.ts"
AgentRoute == "a2aAgentRoute.ts"

NoRequest ==
  Request("none", Undefined, "none", Undefined, Undefined, Undefined, NoParams)

\* mastra.getAgent(agentId) is truthy for the registered agents only
RegisteredAgents == {"potteryAgent"}

\* ------------------------------------------------- JSON-RPC objects, c.json
\* An error message is a sequence of strings: the pieces of its template
ErrorObject(id, code, message) ==
  [jsonrpc |-> "2.0", id |-> id, error |-> [code |-> code, message |-> message]]

ResultObject(id, result) ==
  [jsonrpc |-> "2.0", id |-> id, result |-> result]

\* c.json(body, status); the status defaults to 200
Json(body, status) == [status |-> status, body |-> body]

\* new Response(stream, {headers: {'Content-Type': 'text/event-stream', ...}})
SseResponse == [status |-> 200, body |-> [stream |-> "text/event-stream"]]

\* ------------------------------------------- a2a-pottery-route.ts: helpers
\* extractMessageContent(msg): '' without a parts array, else the parts'
\* texts (a data part: its JSON text; any other part: '') joined by '\n'
PartContent(part) ==
  IF part.kind = "text" THEN part.text
  ELSE IF part.kind = "data" THEN << [json |-> part.data] >>
  ELSE <<>>

extractMessageContent(msg) ==
  IF msg.parts.kind # "array" THEN <<>>
  ELSE JoinLines([i \in 1 .. Len(msg.parts.items) |->
                    PartContent(msg.parts.items[i])])

\* msg.role === 'user' ? 'user' : msg.role === 'agent' ? 'assistant' : msg.role
MastraRole(role) ==
  IF role = "user" THEN "user"
  ELSE IF role = "agent" THEN "assistant"
  ELSE role

\* messagesList.map(msg => ({role, content})): reading msg.role of a null
\* element throws a TypeError
MapThrows(messagesList) ==
  \E i \in 1 .. Len(messagesList) : messagesList[i].kind # "object"

MastraMessages(messagesList) ==
  [i \in 1 .. Len(messagesList) |->
     [role |-> MastraRole(messagesList[i].role),
      content |-> extractMessageContent(messagesList[i])]]

\* `if (message) ... else if (messages && Array.isArray(messages)) ...`
HasMessageList(params) ==
  params.message.kind = "object" \/ params.messages.kind = "array"

MessagesList(params) ==
  IF params.message.kind = "object" THEN << params.message >>
  ELSE IF params.messages.kind = "array" THEN params.messages.items
  ELSE <<>>

systemContext == [role |-> "system", content |-> Word("<pottery expert context>")]

\* An agent call: agent.generate(messages, {threadId, resourceId}) or
\* agent.stream(messages, {threadId, resourceId})
AgentCall(fn, messages, threadId, resourceId) ==
  [fn |-> fn, messages |-> messages, threadId |-> threadId,
   resourceId |-> resourceId]

\* ---------------------------------------------------------------- the agent
\* What the awaited agent promise settles with: the value of agent.generate
\* (text, toolResults), the iterable of agent.stream, one chunk of the
\* iteration (with or without text), the iteration's end, or a rejection.
NoTools == [kind |-> "undefined", items |-> <<>>]
Tools(items) == [kind |-> "array", items |-> items]

Settled(kind, text, toolResults) ==
  [kind |-> kind, text |-> text, toolResults |-> toolResults]

Rejected == Settled("error", <<>>, NoTools)

\* The text the agent writes for a call: it answers that call's messages
AgentAnswer(call) == << [answerTo |-> call.messages, thread |-> call.threadId] >>

ChunkText(call, n) == << [chunk |-> n, of |-> call.messages] >>

\* agent.generate resolves to a response whose text may be missing or empty
\* and whose toolResults may be missing, empty or not; or it rejects
GenerateSettlements(call) ==
  { Settled("response", AgentAnswer(call), tr) :
      tr \in {NoTools, Tools(<<>>), Tools(<< "<tool result>" >>)} }
  \cup {Settled("response", <<>>, NoTools), Rejected}

\* ===================================================== pottery-tool.ts
\* ------------------------------------------------------- JS strings
UpperCaseLetters == "ABCDEFGHIJKLMNOPQRSTUVWXYZ"
LowerCaseLetters == "abcdefghijklmnopqrstuvwxyz"
Digits == "0123456789"

CharAt(s, i) == SubSeq(s, i, i)

IsSpaceChar(c) == c \in {" ", "\t", "\n", "\r"}

IsDigitChar(c) == \E d \in 1 .. 10 : CharAt(Digits, d) = c

LowerChar(c) ==
  IF \E k \in 1 .. 26 : CharAt(UpperCaseLetters, k) = c
  THEN CharAt(LowerCaseLetters,
              CHOOSE k \in 1 .. 26 : CharAt(UpperCaseLetters, k) = c)
  ELSE c

RECURSIVE toLowerCase(_)
toLowerCase(s) ==
  IF Len(s) = 0 THEN ""
  ELSE IF Len(s) = 1 THEN LowerChar(s)
  ELSE toLowerCase(SubSeq(s, 1, Len(s) \div 2))
       \o toLowerCase(SubSeq(s, (Len(s) \div 2) + 1, Len(s)))

\* String.prototype.includes
includes(s, w) ==
  \E i \in 1 .. Len(s) - Len(w) + 1 : SubSeq(s, i, i + Len(w) - 1) = w

\* s.split(/\s+/): the pieces between the runs of whitespace; a leading or a
\* trailing run leaves an empty piece at that end
RECURSIVE SplitFrom(_, _, _)
SplitFrom(s, i, word) ==
  IF i > Len(s) THEN << word >>
  ELSE IF IsSpaceChar(CharAt(s, i))
  THEN IF i > 1 /\ IsSpaceChar(CharAt(s, i - 1))
       THEN SplitFrom(s, i + 1, word)
       ELSE << word >> \o SplitFrom(s, i + 1, "")
  ELSE SplitFrom(s, i + 1, word \o CharAt(s, i))

splitOnWhitespace(s) == SplitFrom(s, 1, "")

\* String(n) of a natural number
RECURSIVE NumberToString(_)
NumberToString(n) ==
  IF n < 10 THEN CharAt(Digits, n + 1)
  ELSE NumberToString(n \div 10) \o CharAt(Digits, (n % 10) + 1)

\* array.join(sep)
RECURSIVE join(_, _)
join(seq, sep) ==
  IF Len(seq) = 0 THEN ""
  ELSE IF Len(seq) = 1 THEN seq[1]
  ELSE seq[1] \o sep \o join(Tail(seq), sep)

\* array.slice(0, end) for an integer end
slice0(seq, end) ==
  LET n == Len(seq)
      to == IF end < 0 THEN (IF n + end > 0 THEN n + end ELSE 0)
            ELSE IF end > n THEN n ELSE end
  IN SubSeq(seq, 1, to)

\* The places where /\[Result \d+\]/g matches in s
ResultTagAt(s, i) ==
  /\ i + 9 <= Len(s)
  /\ SubSeq(s, i, i + 7) = "[Result "
  /\ \E k \in 1 .. Len(s) - i - 8 :
       /\ \A d \in 1 .. k : IsDigitChar(CharAt(s, i + 7 + d))
       /\ CharAt(s, i + 8 + k) = "]"

\* (s.match(/\[Result \d+\]/g) || []).length
countResultTags(s) == Cardinality({i \in 1 .. Len(s) : ResultTagAt(s, i)})

\* ------------------------------------------------------ knowledge base
potteryKnowledge ==
  <<
     [topic |-> "Clay Types",
      content |->
        "There are three main types of clay used in pottery: Earthenw" \o
        "are (fires at low temperatures 1000-1150°C, porous), Stonewa" \o
        "re (fires at 1200-1300°C, non-porous, durable), and Porcelai" \o
        "n (fires at 1200-1400°C, white, translucent, very strong)."],
     [topic |-> "Wheel Throwing",
      content |->
        "Wheel throwing is a pottery technique where clay is shaped o" \o
        "n a potter's wheel. Key steps include: centering the clay, o" \o
        "pening the form, pulling up the walls, and shaping. It requi" \o
        "res practice to master hand coordination and maintaining con" \o
        "sistent pressure."],
     [topic |-> "Glazing",
      content |->
        "Glazing is the process of applying a glassy coating to potte" \o
        "ry. Glazes provide color, texture, and make pieces waterproo" \o
        "f. Glazes are applied after bisque firing and before the fin" \o
        "al glaze firing. Common application methods include dipping," \o
        " pouring, brushing, and spraying."],
     [topic |-> "Firing Process",
      content |->
        "Pottery goes through two main firings: Bisque firing (first " \o
        "firing at 900-1000°C to harden the clay) and Glaze firing (s" \o
        "econd firing at higher temperatures to melt the glaze). Kiln" \o
        "s can be electric, gas, or wood-fired, each producing differ" \o
        "ent effects."],
     [topic |-> "Hand Building",
      content |->
        "Hand-building techniques include: Pinch pots (shaping clay w" \o
        "ith fingers), Coil building (rolling clay into ropes and sta" \o
        "cking them), and Slab building (rolling clay flat and joinin" \o
        "g pieces). These techniques predate the potter's wheel and a" \o
        "re still widely used."],
     [topic |-> "Clay Preparation",
      content |->
        "Clay preparation involves wedging (kneading clay to remove a" \o
        "ir bubbles and create uniform consistency). Proper wedging p" \o
        "revents cracking and explosions in the kiln. Clay should be " \o
        "stored in airtight containers to maintain moisture."],
     [topic |-> "Common Issues",
      content |->
        "Common pottery problems include: Cracking (often from drying" \o
        " too quickly or uneven thickness), Warping (from uneven dryi" \o
        "ng or clay memory), S-cracks (from improper wedging), and Gl" \o
        "aze defects like crazing (fine cracks in glaze from thermal " \o
        "expansion mismatch) or crawling (glaze pulling away from cla" \o
        "y)."],
     [topic |-> "Tools",
      content |->
        "Essential pottery tools include: Potter's wheel, kiln, wire " \o
        "clay cutter, needle tool, ribbon/loop tools, sponges, wooden" \o
        " modeling tools, calipers, bat system, and trimming tools. B" \o
        "eginners can start with basic hand tools before investing in" \o
        " a wheel."]
  >>

NoRelevantInformation ==
  "No relevant information found in the knowledge base for this query."

\* ------------------------------------------------- searchMockKnowledge
RECURSIVE WordsScore(_, _, _)
WordsScore(queryWords, topicLower, contentLower) ==
  IF Len(queryWords) = 0 THEN 0
  ELSE LET word == queryWords[1]
       IN (IF Len(word) > 3
           THEN (IF includes(topicLower, word) THEN 3 ELSE 0)
                + (IF includes(contentLower, word) THEN 1 ELSE 0)
           ELSE 0)
          + WordsScore(Tail(queryWords), topicLower, contentLower)

\* The .map callback: the item with its relevance score
Scored(item, queryLower) ==
  [topic |-> item.topic, content |-> item.content,
   score |-> WordsScore(splitOnWhitespace(queryLower),
                        toLowerCase(item.topic), toLowerCase(item.content))]

\* .sort((a, b) => b.score - a.score): stable, highest score first
RECURSIVE InsertByScore(_, _)
InsertByScore(item, sorted) ==
  IF Len(sorted) = 0 THEN << item >>
  ELSE IF sorted[1].score >= item.score
  THEN << sorted[1] >> \o InsertByScore(item, Tail(sorted))
  ELSE << item >> \o sorted

\* (mutant) a sort that leaves the items as they are
sortKeepsOrder(items) == items

RECURSIVE sortByScore(_)
sortByScore(items) ==
  IF Len(items) = 0 THEN <<>>
  ELSE InsertByScore(items[Len(items)],
                     sortByScore(SubSeq(items, 1, Len(items) - 1)))

HasScore(item) == item.score > 0

MockBlock(item, index) ==
  "[Result " \o NumberToString(index) \o "] " \o item.topic \o ":\n"
  \o item.content

MockRanked(query) ==
  LET queryLower == toLowerCase(query)
  IN sortByScore(SelectSeq([i \in 1 .. Len(potteryKnowledge) |->
                              Scored(potteryKnowledge[i], queryLower)],
                           HasScore))

searchMockKnowledge(query, maxResults) ==
  LET results == slice0(MockRanked(query), maxResults)
  IN IF Len(results) = 0 THEN NoRelevantInformation
     ELSE join([i \in 1 .. Len(results) |-> MockBlock(results[i], i)], "\n\n")

\* ------------------------------------------------ searchPineconeKnowledge
\* Scores are kept in thousandths: 0.6 is 600
ScoreThreshold == 600

NoHighlyRelevantInformation ==
  "No highly relevant information found. The query may be too specific or outside the knowledge base."

\* The metadata of a match; a member that is missing is ''
Metadata(title, topic, originalTerm, description, lede, content, category, source) ==
  [title |-> title, topic |-> topic, originalTerm |-> originalTerm,
   original_term |-> "", description |-> description, lede |-> lede,
   content |-> content, text |-> "", category |-> category, source |-> source]

\* match.metadata || {}
NoMetadata == Metadata("", "", "", "", "", "", "", "")

\* A match of the query response; hasScore is FALSE when score is missing
Match(hasScore, score, metadata) ==
  [hasScore |-> hasScore, score |-> score, metadata |-> metadata]

\* match.score as a condition: missing and 0 are falsy
ScoreTruthy(match) == match.hasScore /\ match.score # 0

\* (mutant) a filter that lets a score equal to the threshold through
AtLeastThreshold(match) == ScoreTruthy(match) /\ match.score >= ScoreThreshold

\* (mutant) a filter at 0.65
AboveHigherThreshold(match) == ScoreTruthy(match) /\ match.score > 650

\* The .filter callback: match.score && match.score > 0.6
AboveThreshold(match) == ScoreTruthy(match) /\ match.score > ScoreThreshold

\* (score * 100).toFixed(1) of a score in thousandths
toFixed1(score) ==
  NumberToString(score \div 10) \o "." \o NumberToString(score % 10)

\* The .map callback: one formatted result
PineconeBlock(match, index) ==
  LET metadata == match.metadata
      topic == Or(metadata.title, Or(metadata.topic,
                 Or(metadata.originalTerm, Or(metadata.original_term,
                    "General Information"))))
      content == Or(metadata.description, Or(metadata.lede,
                   Or(metadata.content, Or(metadata.text,
                      "No detailed content available"))))
      category == Or(metadata.category, "")
      source == Or(metadata.source, "")
      score == IF ScoreTruthy(match) THEN toFixed1(match.score) ELSE "N/A"
  IN "[Result " \o NumberToString(index) \o "] (Relevance: " \o score \o "%) "
     \o topic
     \o (IF Truthy(category) THEN " [Category: " \o category \o "]" ELSE "")
     \o ":\n" \o content
     \o (IF Truthy(source) THEN "\n(Source: " \o source \o ")" ELSE "")

\* What index.query resolved to, or that it rejected
QueryThrows == [kind |-> "throws", hasMatches |-> FALSE, matches |-> <<>>]
NoMatchesMember == [kind |-> "response", hasMatches |-> FALSE, matches |-> <<>>]
QueryResponse(matches) ==
  [kind |-> "response", hasMatches |-> TRUE, matches |-> matches]

\* (mutant) a catch that reports the failure instead of searching
PineconeCatchReports(query, maxResults) == "Error searching knowledge base"

\* The catch of searchPineconeKnowledge
PineconeCatch(query, maxResults) == searchMockKnowledge(query, maxResults)

\* searchPineconeKnowledge from the query response on
PineconeResults(queryResponse) ==
  IF ~queryResponse.hasMatches \/ Len(queryResponse.matches) = 0
  THEN NoRelevantInformation
  ELSE LET kept == SelectSeq(queryResponse.matches, AboveThreshold)
           results == [i \in 1 .. Len(kept) |-> PineconeBlock(kept[i], i)]
       IN IF Len(results) = 0 THEN NoHighlyRelevantInformation
          ELSE join(results, "\n\n")

\* ------------------------------------------------ potterySearchTool.execute
\* process.env
Env(apiKey, indexName) ==
  [PINECONE_API_KEY |-> apiKey, PINECONE_INDEX_NAME |-> indexName]

usePinecone(env) == Truthy(env.PINECONE_API_KEY) /\ Truthy(env.PINECONE_INDEX_NAME)

NoEnv == Env(Undefined, Undefined)
NoContext == [query |-> "", maxResults |-> 0]

\* The tool at rest
ToolIdle ==
  [pc |-> "idle", context |-> NoContext, env |-> NoEnv, embedding |-> "none",
   queryResponse |-> NoMatchesMember, results |-> ""]

\* ===================================================== pottery-workflow.ts
UpperChar(c) ==
  IF \E k \in 1 .. 26 : CharAt(LowerCaseLetters, k) = c
  THEN CharAt(UpperCaseLetters,
              CHOOSE k \in 1 .. 26 : CharAt(LowerCaseLetters, k) = c)
  ELSE c

\* The category of a lowercased question (categorizeQuery and formatResponse
\* hold the same chain)
categoryOf(question) ==
  IF includes(question, "clay") \/ includes(question, "material")
  THEN "materials"
  ELSE IF includes(question, "glaze") \/ includes(question, "glazing")
  THEN "glazing"
  ELSE IF includes(question, "fire") \/ includes(question, "firing")
          \/ includes(question, "kiln")
  THEN "firing"
  ELSE IF includes(question, "wheel") \/ includes(question, "throw")
  THEN "techniques"
  ELSE IF includes(question, "hand") \/ includes(question, "coil")
          \/ includes(question, "slab")
  THEN "hand-building"
  ELSE IF includes(question, "crack") \/ includes(question, "problem")
          \/ includes(question, "fix")
  THEN "troubleshooting"
  ELSE IF includes(question, "tool") THEN "tools"
  ELSE "general"

LongerThan3(word) == Len(word) > 3

\* categorizeQuery.execute
categorizeQuery(inputData) ==
  LET question == toLowerCase(inputData.question)
  IN [question |-> inputData.question,
      category |-> categoryOf(question),
      keywords |-> slice0(SelectSeq(splitOnWhitespace(question), LongerThan3), 5)]

\* The .filter callback of searchKnowledge
WorkflowAboveThreshold(match) == ScoreTruthy(match) /\ match.score > ScoreThreshold

\* The .map callback of searchKnowledge
WorkflowBlock(match, idx) ==
  LET metadata == match.metadata
      topic == Or(metadata.title, Or(metadata.topic, "General Information"))
      content == Or(metadata.description, Or(metadata.lede, "No content"))
  IN "[Result " \o NumberToString(idx) \o "] (" \o toFixed1(match.score)
     \o "%) " \o topic \o ":\n" \o content

\* searchKnowledge.execute from the query response on
WorkflowResults(queryResponse) ==
  LET kept == SelectSeq(queryResponse.matches, WorkflowAboveThreshold)
      results == join([i \in 1 .. Len(kept) |-> WorkflowBlock(kept[i], i)],
                      "\n\n")
  IN IF results = "" THEN "No results found" ELSE results

\* The catch of searchKnowledge.execute
WorkflowSearchFailed == "Error searching knowledge base"

relatedTopicsOf(category) ==
  IF category = "materials"
  THEN << "Clay preparation", "Clay storage", "Clay wedging" >>
  ELSE IF category = "glazing"
  THEN << "Glaze application", "Glaze firing", "Glaze defects" >>
  ELSE IF category = "firing"
  THEN << "Bisque firing", "Glaze firing", "Kiln types" >>
  ELSE IF category = "techniques"
  THEN << "Centering", "Pulling walls", "Trimming" >>
  ELSE IF category = "hand-building"
  THEN << "Pinch pots", "Coil building", "Slab construction" >>
  ELSE IF category = "troubleshooting"
  THEN << "Cracking", "Warping", "Glaze defects" >>
  ELSE IF category = "tools"
  THEN << "Essential tools", "Wheel maintenance", "Kiln care" >>
  ELSE << "Getting started", "Basic techniques", "Common questions" >>

\* formatResponse.execute
formatResponse(inputData) ==
  LET results == inputData.results
      query == inputData.query
      category == categoryOf(toLowerCase(query))
      sourceCount == countResultTags(results)
      relatedTopics == relatedTopicsOf(category)
      answer ==
        "**Question:** " \o query \o "\n\n**Category:** "
        \o UpperChar(CharAt(category, 1)) \o SubSeq(category, 2, Len(category))
        \o "\n\n**Answer:**\n" \o results \o "\n\n**Related Topics:**\n"
        \o join([i \in 1 .. Len(relatedTopics) |-> "- " \o relatedTopics[i]],
                "\n")
        \o "\n\n**Sources:** " \o NumberToString(sourceCount)
        \o " results from pottery knowledge base"
  IN [answer |-> answer, category |-> category,
      relatedTopics |-> relatedTopics, sources |-> sourceCount]

NoOutput == [answer |-> "", category |-> "", relatedTopics |-> <<>>, sources |-> 0]

NoCategorized == [question |-> "", category |-> "", keywords |-> <<>>]

\* The workflow at rest
WorkflowIdle ==
  [pc |-> "idle", categorized |-> NoCategorized, embedding |-> "none",
   queryResponse |-> NoMatchesMember, results |-> "", query |-> "",
   output |-> NoOutput]

\* ---------------------------------------------------------- handler state
VARIABLES
  pc,        \* pc[h]: where invocation h stands
  req,       \* req[h]: the request it serves
  resp,      \* resp[h]: the HTTP responses it has returned (at most one)
  lookedUp,  \* lookedUp[h]: mastra.getAgent was called
  calls,     \* calls[h]: the agent calls it has made
  promise,   \* promise[h]: the agent promise it awaits
  events,    \* events[h]: the SSE events enqueued on its stream
  closed,    \* closed[h]: controller.close() was called
  fullText,  \* fullText[h]: the text accumulated from the chunks
  nchunks,   \* nchunks[h]: the chunks the iteration has yielded
  webhook,   \* webhook[h]: the POSTs its background task has made
  tool,      \* the execution of potterySearchTool
  workflow   \* the run of potteryWorkflow

routeVars == << pc, req, resp, lookedUp, calls, promise, events, closed,
                fullText, nchunks, webhook >>

vars == << routeVars, tool, workflow >>

\* The promise an invocation awaits: none, pending, settled with a value
\* (a rejection being the value Rejected) ...
NoPromise == [state |-> "none", value |-> Rejected]
Pending == [state |-> "pending", value |-> Rejected]
SettledWith(v) == [state |-> "settled", value |-> v]
\* ... and, once its continuation has run, consumed
Consumed(v) == [state |-> "consumed", value |-> v]

Init ==
  /\ pc = [h \in Handlers |-> "idle"]
  /\ req = [h \in Handlers |-> NoRequest]
  /\ resp = [h \in Handlers |-> <<>>]
  /\ lookedUp = [h \in Handlers |-> FALSE]
  /\ calls = [h \in Handlers |-> <<>>]
  /\ promise = [h \in Handlers |-> NoPromise]
  /\ events = [h \in Handlers |-> <<>>]
  /\ closed = [h \in Handlers |-> FALSE]
  /\ fullText = [h \in Handlers |-> <<>>]
  /\ nchunks = [h \in Handlers |-> 0]
  /\ webhook = [h \in Handlers |-> <<>>]
  /\ tool = ToolIdle
  /\ workflow = WorkflowIdle

\* ------------------------------------------------ what a handler step yields
\* The effect of running a handler up to its next await or its return:
\* where it stands next, the response it returned, whether it looked the
\* agent up, the agent call it made and awaits, the events it enqueued,
\* whether it closed the stream and the payloads it POSTed to the webhook.  "throw" is an exception on its way to the
\* enclosing catch.
Step(next, responses, looked, made, enqueued, closes) ==
  [next |-> next, resp |-> responses, lookedUp |-> looked, calls |-> made,
   events |-> enqueued, closed |-> closes, posts |-> <<>>]

Respond(response) == Step("done", << response >>, FALSE, <<>>, <<>>, FALSE)
Throw == Step("throw", <<>>, FALSE, <<>>, <<>>, FALSE)
Await(call) == Step("generate", <<>>, FALSE, << call >>, <<>>, FALSE)

\* ------------------------------------- a2a-pottery-route.ts: message/send
InvalidParamsMessage ==
  << "Invalid params: either \"message\" or \"messages\" is required" >>

\* (mutant) a thread keyed by the task before the session
threadIdTaskFirst(h, params) ==
  Or(params.id, Or(params.sessionId, randomUUID(h, 1)))

threadIdOf(h, params) ==
  Or(params.sessionId, Or(params.id, randomUUID(h, 1)))

resourceIdOf(params) == Or(params.userId, "telex-user")

\* (mutant) a task id that is always drawn afresh
currentTaskIdAlwaysFresh(h, params) == randomUUID(h, 2)

currentTaskIdOf(h, params) == Or(params.id, randomUUID(h, 2))

currentContextIdOf(h, params) == Or(params.sessionId, randomUUID(h, 3))

\* (mutant) message/send that, like message/stream, takes absent messages
\* for an empty list
handleMessageSendLenient(h, agentId, requestId, params) ==
  IF MapThrows(MessagesList(params)) THEN Throw
  ELSE Await(AgentCall("generate",
                       << systemContext >> \o MastraMessages(MessagesList(params)),
                       threadIdOf(h, params), resourceIdOf(params)))

\* handleMessageSend up to `await agent.generate(...)`
handleMessageSend(h, agentId, requestId, params) ==
  IF ~HasMessageList(params)
  THEN Respond(Json(ErrorObject(requestId, -32602, InvalidParamsMessage), 400))
  ELSE IF MapThrows(MessagesList(params)) THEN Throw
  ELSE Await(AgentCall("generate",
                       << systemContext >> \o MastraMessages(MessagesList(params)),
                       threadIdOf(h, params), resourceIdOf(params)))

\* history.slice(-n)
SliceLast(seq, n) ==
  IF n >= Len(seq) THEN seq ELSE SubSeq(seq, Len(seq) - n + 1, Len(seq))

AgentMessage(agentText) ==
  [role |-> "agent", parts |-> Parts(<< TextPart(agentText) >>),
   kind |-> "message"]

SendArtifacts(agentId, agentText, response) ==
  << [name |-> << agentId, "Response" >>,
      parts |-> << [kind |-> "text", text |-> agentText] >>] >>
  \o (IF response.toolResults.kind = "array" /\ Len(response.toolResults.items) > 0
      THEN << [name |-> << "PotteryKnowledgeResults" >>,
               parts |-> [i \in 1 .. Len(response.toolResults.items) |->
                            [kind |-> "data",
                             data |-> response.toolResults.items[i]]]] >>
      ELSE <<>>)

SendHistory(messagesList, currentTaskId, agentText) ==
  [i \in 1 .. Len(messagesList) |->
     [kind |-> "message", role |-> messagesList[i].role,
      parts |-> messagesList[i].parts, taskId |-> currentTaskId]]
  \o << [kind |-> "message", role |-> "agent",
         parts |-> Parts(<< TextPart(agentText) >>),
         taskId |-> currentTaskId] >>

LimitedHistory(history, historyLength) ==
  IF historyLength > 0 THEN SliceLast(history, historyLength) ELSE history

ToolCount(response) ==
  IF response.toolResults.kind = "array" THEN Len(response.toolResults.items)
  ELSE 0

\* The task object of the message/send result
SendTask(h, agentId, params, response) ==
  [id |-> currentTaskIdOf(h, params),
   contextId |-> currentContextIdOf(h, params),
   sessionId |-> currentContextIdOf(h, params),
   status |-> [state |-> "completed", timestamp |-> Timestamp,
               message |-> AgentMessage(response.text)],
   artifacts |-> SendArtifacts(agentId, response.text, response),
   history |-> LimitedHistory(
                 SendHistory(MessagesList(params), currentTaskIdOf(h, params),
                             response.text),
                 params.historyLength),
   kind |-> "task",
   metadata |-> [agentId |-> agentId, agentName |-> "Pottery Expert Agent",
                 toolsUsed |-> ToolCount(response),
                 vectorSearchPerformed |-> ToolCount(response) > 0]]

\* handleMessageSend after `await agent.generate(...)` resolved to response
handleMessageSendResult(h, agentId, requestId, params, response) ==
  Respond(Json(ResultObject(requestId, SendTask(h, agentId, params, response)), 200))

\* ----------------------------------- a2a-pottery-route.ts: message/stream
startEvent(requestId, h, params) ==
  ResultObject(requestId,
               [id |-> currentTaskIdOf(h, params),
                contextId |-> currentContextIdOf(h, params),
                status |-> [state |-> "processing", timestamp |-> Timestamp],
                kind |-> "task"])

chunkEvent(requestId, h, params, text) ==
  ResultObject(requestId,
               [id |-> currentTaskIdOf(h, params),
                contextId |-> currentContextIdOf(h, params),
                status |-> [state |-> "streaming", timestamp |-> Timestamp,
                            message |-> AgentMessage(text)]])

completionEvent(requestId, h, agentId, params, text) ==
  ResultObject(requestId,
               [id |-> currentTaskIdOf(h, params),
                contextId |-> currentContextIdOf(h, params),
                status |-> [state |-> "completed", timestamp |-> Timestamp,
                            message |-> AgentMessage(text)],
                artifacts |-> << [name |-> << agentId, "Response" >>,
                                  parts |-> << [kind |-> "text", text |-> text] >>] >>,
                kind |-> "task"])

\* (mutant) an error event that also carries a result member
errorEventWithResult(requestId) ==
  [jsonrpc |-> "2.0", id |-> requestId,
   result |-> [status |-> [state |-> "failed", timestamp |-> Timestamp]],
   error |-> [code |-> -32603, message |-> << "Streaming error" >>,
              data |-> [details |-> "<error.message>"]]]

errorEvent(requestId) ==
  [jsonrpc |-> "2.0", id |-> requestId,
   error |-> [code |-> -32603, message |-> << "Streaming error" >>,
              data |-> [details |-> "<error.message>"]]]

\* handleMessageStream up to `await agent.stream(...)` inside start(): the
\* start event is enqueued, the stream call is made, and the handler has
\* returned the event-stream response
handleMessageStream(h, agentId, requestId, params) ==
  IF MapThrows(MessagesList(params)) THEN Throw
  ELSE Step("streamOpen", << SseResponse >>, FALSE,
            << AgentCall("stream", MastraMessages(MessagesList(params)),
                         Or(params.sessionId, currentTaskIdOf(h, params)),
                         resourceIdOf(params)) >>,
            << startEvent(requestId, h, params) >>, FALSE)

\* (mutant) a start() whose catch enqueues the error event and leaves the
\* stream open
StreamStepCatchLeavesOpen(h, agentId, requestId, params, text, v) ==
  IF v.kind = "iterable"
  THEN Step("streaming", <<>>, FALSE, <<>>, <<>>, FALSE)
  ELSE IF v.kind = "chunk"
  THEN Step("streaming", <<>>, FALSE, <<>>,
            IF Len(v.text) > 0
            THEN << chunkEvent(requestId, h, params, v.text) >> ELSE <<>>,
            FALSE)
  ELSE IF v.kind = "end"
  THEN Step("done", <<>>, FALSE, <<>>,
            << completionEvent(requestId, h, agentId, params, text) >>, TRUE)
  ELSE Step("done", <<>>, FALSE, <<>>, << errorEvent(requestId) >>, FALSE)

\* start() after an await settled with v: the stream opened, a chunk came,
\* the iteration ended, or something threw (the catch of start())
StreamStep(h, agentId, requestId, params, text, v) ==
  IF v.kind = "iterable"
  THEN Step("streaming", <<>>, FALSE, <<>>, <<>>, FALSE)
  ELSE IF v.kind = "chunk"
  THEN Step("streaming", <<>>, FALSE, <<>>,
            IF Len(v.text) > 0
            THEN << chunkEvent(requestId, h, params, v.text) >> ELSE <<>>,
            FALSE)
  ELSE IF v.kind = "end"
  THEN Step("done", <<>>, FALSE, <<>>,
            << completionEvent(requestId, h, agentId, params, text) >>, TRUE)
  ELSE Step("done", <<>>, FALSE, <<>>, << errorEvent(requestId) >>, TRUE)

\* ------------------------------ a2a-pottery-route.ts: tasks/get, tasks/cancel
TaskIdRequiredMessage == << "Invalid params: \"id\" (taskId) is required" >>

handleTasksGet(requestId, params) ==
  IF ~Truthy(params.id)
  THEN Respond(Json(ErrorObject(requestId, -32602, TaskIdRequiredMessage), 400))
  ELSE Respond(Json(ResultObject(requestId,
                      [id |-> params.id,
                       status |-> [state |-> "completed", timestamp |-> Timestamp],
                       history |-> <<>>, kind |-> "task"]), 200))

handleTasksCancel(requestId, params) ==
  IF ~Truthy(params.id)
  THEN Respond(Json(ErrorObject(requestId, -32602, TaskIdRequiredMessage), 400))
  ELSE Respond(Json(ResultObject(requestId,
                      [id |-> params.id,
                       status |-> [state |-> "cancelled", timestamp |-> Timestamp],
                       kind |-> "task"]), 200))

\* ------------------------------------ a2a-pottery-route.ts: a2aPotteryRoute
InvalidRequestMessage ==
  << "Invalid Request: jsonrpc must be \"2.0\" and id is required" >>

\* The catch of the handler: 500 with -32603 and id null
PotteryInternalError ==
  Json([jsonrpc |-> "2.0", id |-> Null,
        error |-> [code |-> -32603, message |-> << "Internal error" >>,
                   data |-> [details |-> "<error.message>"]]], 500)

\* `jsonrpc !== '2.0' || !requestId`
InvalidEnvelope(r) == r.jsonrpc # "2.0" \/ ~Truthy(r.id)

\* (mutant) a switch whose default falls into message/send
PotteryDispatchFallsThrough(h, r) ==
  CASE r.method = "message/stream" ->
         handleMessageStream(h, r.agentId, r.id, r.params)
    [] r.method = "tasks/get" -> handleTasksGet(r.id, r.params)
    [] r.method = "tasks/cancel" -> handleTasksCancel(r.id, r.params)
    [] OTHER -> handleMessageSend(h, r.agentId, r.id, r.params)

\* The switch over the method, the agent being found
PotteryDispatch(h, r) ==
  CASE r.method = "message/send" ->
         handleMessageSend(h, r.agentId, r.id, r.params)
    [] r.method = "message/stream" ->
         handleMessageStream(h, r.agentId, r.id, r.params)
    [] r.method = "tasks/get" -> handleTasksGet(r.id, r.params)
    [] r.method = "tasks/cancel" -> handleTasksCancel(r.id, r.params)
    [] OTHER ->
         Respond(Json(ErrorObject(r.id, -32601,
                                  << "Method '", r.method, "' not found" >>), 400))

\* The body of the try block: c.req.json() throws on a body that does not
\* parse, destructuring throws on the body null
PotteryTry(h, r) ==
  IF r.bodyKind # "object" THEN Throw
  ELSE IF InvalidEnvelope(r)
  THEN Respond(Json(ErrorObject(Or(r.id, Null), -32600, InvalidRequestMessage), 400))
  ELSE IF r.agentId \notin RegisteredAgents
  THEN [Respond(Json(ErrorObject(r.id, -32602,
                                 << "Agent '", r.agentId, "' not found" >>), 404))
          EXCEPT !.lookedUp = TRUE]
  ELSE [PotteryDispatch(h, r) EXCEPT !.lookedUp = TRUE]

\* try { ... } catch (error) { return c.json({... -32603 ...}, 500) }
Caught(step, response) ==
  IF step.next = "throw" THEN [Respond(response) EXCEPT !.lookedUp = step.lookedUp]
  ELSE step

a2aPotteryRoute(h, r) == Caught(PotteryTry(h, r), PotteryInternalError)

\* The handler resumed after `await agent.generate(...)` settled with v
a2aPotteryRouteResume(h, r, v) ==
  IF v.kind = "error" THEN Respond(PotteryInternalError)
  ELSE handleMessageSendResult(h, r.agentId, r.id, r.params, v)

\* --------------------------------------------- a2aAgentRoute.ts: stripHtml
\* A text segment is a word, an HTML tag <...>, the entity &nbsp;, a blank
\* or a line break.
Tag(t) == [tag |-> t]
Nbsp == [nbsp |-> TRUE]
Space == [space |-> TRUE]

IsTag(seg) == "tag" \in DOMAIN seg
IsNbsp(seg) == "nbsp" \in DOMAIN seg
IsWhitespace(seg) == "space" \in DOMAIN seg \/ "nl" \in DOMAIN seg

\* .replace(/<[^>]+>/g, ' ').replace(/&nbsp;/g, ' ')
TagsToSpaces(text) ==
  [i \in 1 .. Len(text) |->
     IF IsTag(text[i]) \/ IsNbsp(text[i]) THEN Space ELSE text[i]]

\* .replace(/\s\s+/g, ' '): a run of two or more whitespace characters
\* becomes one blank; a single whitespace character stays what it is
RECURSIVE SkipWhitespace(_)
SkipWhitespace(text) ==
  IF Len(text) > 0 /\ IsWhitespace(text[1]) THEN SkipWhitespace(Tail(text))
  ELSE text

RECURSIVE CollapseWhitespace(_)
CollapseWhitespace(text) ==
  IF Len(text) = 0 THEN <<>>
  ELSE IF IsWhitespace(text[1]) /\ Len(text) > 1 /\ IsWhitespace(text[2])
  THEN << Space >> \o CollapseWhitespace(SkipWhitespace(text))
  ELSE << text[1] >> \o CollapseWhitespace(Tail(text))

\* .trim()
RECURSIVE TrimEnd(_)
TrimEnd(text) ==
  IF Len(text) > 0 /\ IsWhitespace(text[Len(text)])
  THEN TrimEnd(SubSeq(text, 1, Len(text) - 1))
  ELSE text

Trim(text) == TrimEnd(SkipWhitespace(text))

stripHtml(html) ==
  IF Len(html) = 0 THEN <<>>
  ELSE Trim(CollapseWhitespace(TagsToSpaces(html)))

\* ------------------------------------ a2aAgentRoute.ts: prompt extraction
\* msg.parts.find(p => p.kind === 'data' && Array.isArray(p.data)): the
\* index of the first such part, 0 when there is none
RECURSIVE FirstDataPart(_, _)
FirstDataPart(parts, i) ==
  IF i > Len(parts) THEN 0
  ELSE IF parts[i].kind = "data" /\ parts[i].data.kind = "array" THEN i
  ELSE FirstDataPart(parts, i + 1)

\* data.slice().reverse().find(item => item.kind === 'text' && item.text):
\* the index of the last such item, 0 when there is none
\* (mutant) the first text item instead of the last
FirstTextItem(items, i) ==
  IF \E k \in 1 .. i : items[k].kind = "text" /\ Len(items[k].text) > 0
  THEN CHOOSE k \in 1 .. i :
         /\ items[k].kind = "text" /\ Len(items[k].text) > 0
         /\ \A j \in 1 .. k - 1 : ~(items[j].kind = "text" /\ Len(items[j].text) > 0)
  ELSE 0

RECURSIVE LastTextItem(_, _)
LastTextItem(items, i) ==
  IF i = 0 THEN 0
  ELSE IF items[i].kind = "text" /\ Len(items[i].text) > 0 THEN i
  ELSE LastTextItem(items, i - 1)

\* The `for (const msg of messagesList)` loop from message i on: the prompt
\* found (the loop breaks), '' when the loop ends without one, or a
\* TypeError on a null message
RECURSIVE PromptFromData(_, _)
PromptFromData(list, i) ==
  IF i > Len(list) THEN [threw |-> FALSE, text |-> <<>>]
  ELSE IF list[i].kind # "object" THEN [threw |-> TRUE, text |-> <<>>]
  ELSE IF list[i].parts.kind # "array" THEN PromptFromData(list, i + 1)
  ELSE LET parts == list[i].parts.items
           d == FirstDataPart(parts, 1)
           t == IF d = 0 THEN 0
                ELSE LastTextItem(parts[d].data.items, Len(parts[d].data.items))
       IN IF t = 0 THEN PromptFromData(list, i + 1)
          ELSE [threw |-> FALSE, text |-> stripHtml(parts[d].data.items[t].text)]

\* msg.parts?.filter(part => part.kind === 'text')
\*   .map(part => stripHtml(part.text)).join('\n') || ''
RECURSIVE StrippedTextParts(_)
StrippedTextParts(parts) ==
  IF Len(parts) = 0 THEN <<>>
  ELSE (IF parts[1].kind = "text" THEN << stripHtml(parts[1].text) >> ELSE <<>>)
       \o StrippedTextParts(Tail(parts))

FallbackContent(msg) ==
  IF msg.parts.kind # "array" THEN <<>>
  ELSE JoinLines(StrippedTextParts(msg.parts.items))

FallbackPrompt(list) ==
  JoinLines([i \in 1 .. Len(list) |-> FallbackContent(list[i])])

\* promptText, or a TypeError
PromptText(list) ==
  LET fromData == PromptFromData(list, 1)
  IN IF fromData.threw THEN fromData
     ELSE IF Len(fromData.text) > 0 THEN fromData
     ELSE IF MapThrows(list) THEN [threw |-> TRUE, text |-> <<>>]
     ELSE [threw |-> FALSE, text |-> FallbackPrompt(list)]

\* ---------------------------------------- a2aAgentRoute.ts: a2aAgentRoute
\* The catch of the handler: 500 with -32603 and the stored requestId
AgentRouteInternalError(requestId) ==
  Json([jsonrpc |-> "2.0", id |-> requestId,
        error |-> [code |-> -32603, message |-> << "Internal error" >>,
                   data |-> [details |-> "<error.message>"]]], 500)

\* `const { blocking = true } = configuration || {}; if (blocking)`
IsBlocking(params) == params.blocking = Undefined \/ Truthy(params.blocking)

\* A random UUID that nothing of the model reads again
FreshUuid == "<another random UUID>"

\* The handler returned undefined: it hands the framework no Response
NothingReturned == [status |-> 0, body |-> [returned |-> "undefined"]]

AcceptedObject(requestId) ==
  ResultObject(requestId, [message |-> "Accepted for processing"])

\* getAgentResponse() after agent.generate resolved: the response object
agentResponse(h, agentId, requestId, params, response) ==
  ResultObject(requestId,
    [id |-> Or(params.taskId, randomUUID(h, 2)),
     contextId |-> Or(params.contextId, randomUUID(h, 3)),
     status |-> [state |-> "completed", timestamp |-> Timestamp,
                 message |-> AgentMessage(response.text)],
     artifacts |-> SendArtifacts(agentId, response.text, response),
     history |-> SendHistory(MessagesList(params),
                             Or(params.taskId, FreshUuid), response.text),
     kind |-> "task"])

\* (mutant) an error payload that does not name the request
errorResponseWithoutId(requestId) ==
  [jsonrpc |-> "2.0", id |-> Null,
   error |-> [code |-> -32000,
              message |-> << "Agent failed to generate a response." >>,
              data |-> [details |-> "<err.message>"]]]

\* The payload of the catch of the background task
errorResponse(requestId) ==
  [jsonrpc |-> "2.0", id |-> requestId,
   error |-> [code |-> -32000,
              message |-> << "Agent failed to generate a response." >>,
              data |-> [details |-> "<err.message>"]]]

\* A fetch(webhookUrl, {method: 'POST', body}) and whether it resolved
Post(url, payload, ok) == [url |-> url, payload |-> payload, ok |-> ok]

\* The body of the try block up to the first await of agent.generate
AgentRouteTry(h, r) ==
  IF r.bodyKind # "object" THEN Throw
  ELSE IF InvalidEnvelope(r)
  THEN Respond(Json(ErrorObject(Or(r.id, Null), -32600, << "Invalid Request" >>), 400))
  ELSE IF r.agentId \notin RegisteredAgents
  THEN [Respond(Json(ErrorObject(r.id, -32602,
                                 << "Agent '", r.agentId, "' not found" >>), 404))
          EXCEPT !.lookedUp = TRUE]
  ELSE LET prompt == PromptText(MessagesList(r.params))
           call == AgentCall("generate",
                             << [role |-> "user", content |-> prompt.text] >>,
                             Undefined, Undefined)
       IN IF prompt.threw THEN [Throw EXCEPT !.lookedUp = TRUE]
          ELSE IF IsBlocking(r.params)
          THEN [Await(call) EXCEPT !.lookedUp = TRUE]
          ELSE IF ~r.executionCtx THEN [Throw EXCEPT !.lookedUp = TRUE]
          ELSE IF ~Truthy(r.params.webhookUrl)
          THEN [Respond(NothingReturned) EXCEPT !.lookedUp = TRUE]
          ELSE Step("background", << NothingReturned >>, TRUE, << call >>,
                    <<>>, FALSE)

a2aAgentRoute(h, r) ==
  Caught(AgentRouteTry(h, r),
         AgentRouteInternalError(IF r.bodyKind = "object" THEN Or(r.id, Null)
                                 ELSE Null))

\* getAgentResponse() throws when agent.generate rejects, and when the
\* history is built over a null message
GetAgentResponseThrows(r, v) ==
  v.kind = "error" \/ MapThrows(MessagesList(r.params))

\* The blocking handler resumed after `await getAgentResponse()`
a2aAgentRouteResume(h, r, v) ==
  IF GetAgentResponseThrows(r, v)
  THEN Respond(AgentRouteInternalError(r.id))
  ELSE Respond(Json(agentResponse(h, r.agentId, r.id, r.params, v), 200))

\* The background task resumed after `await getAgentResponse()`: it POSTs
\* the response, and the error payload when anything in its try block threw,
\* the first fetch included.  fetchOk: whether the first fetch resolves.
BackgroundResume(h, r, v, fetchOk, secondOk) ==
  LET url == r.params.webhookUrl
      failure == Post(url, errorResponse(r.id), secondOk)
      success == Post(url, agentResponse(h, r.agentId, r.id, r.params, v), fetchOk)
  IN [Step("done", <<>>, FALSE, <<>>, <<>>, FALSE)
        EXCEPT !.posts = IF GetAgentResponseThrows(r, v) THEN << failure >>
                         ELSE IF fetchOk THEN << success >>
                         ELSE << success, failure >>]

\* ------------------------------------------------------------------ actions
\* A request arrives and invocation h runs up to its first await of the
\* agent, or to its return
RouteStep(h, r) ==
  IF r.route = PotteryRoute THEN a2aPotteryRoute(h, r) ELSE a2aAgentRoute(h, r)

Receive(h, r) ==
  /\ pc[h] = "idle"
  /\ LET step == RouteStep(h, r)
     IN /\ pc' = [pc EXCEPT ![h] = step.next]
        /\ req' = [req EXCEPT ![h] = r]
        /\ resp' = [resp EXCEPT ![h] = step.resp]
        /\ lookedUp' = [lookedUp EXCEPT ![h] = step.lookedUp]
        /\ calls' = [calls EXCEPT ![h] = step.calls]
        /\ promise' = [promise EXCEPT
                         ![h] = IF Len(step.calls) > 0 THEN Pending ELSE NoPromise]
        /\ events' = [events EXCEPT ![h] = step.events]
        /\ closed' = [closed EXCEPT ![h] = step.closed]
        /\ UNCHANGED << fullText, nchunks, webhook >>

\* What the promise awaited by h may settle with
Settlements(h) ==
  LET call == calls[h][1]
  IN IF pc[h] \in {"generate", "background"} THEN GenerateSettlements(call)
     ELSE IF pc[h] = "streamOpen"
     THEN {Settled("iterable", <<>>, NoTools), Rejected}
     ELSE {Settled("end", <<>>, NoTools), Rejected}
          \cup (IF nchunks[h] < MaxChunks
                THEN {Settled("chunk", ChunkText(call, nchunks[h] + 1), NoTools),
                      Settled("chunk", <<>>, NoTools)}
                ELSE {})

\* The agent settles the promise that h awaits
AgentSettles(h) ==
  /\ promise[h].state = "pending"
  /\ \E v \in Settlements(h) : promise' = [promise EXCEPT ![h] = SettledWith(v)]
  /\ UNCHANGED << pc, req, resp, lookedUp, calls, events, closed, fullText,
                  nchunks, webhook >>

\* (mutant) a continuation that takes the value of whichever promise settled
AwaitedAny(h) ==
  promise[CHOOSE g \in Handlers : promise[g].state = "settled"].value

\* The value `await` hands to the continuation of h: that of its own promise
Awaited(h) == promise[h].value

\* The continuation of h after its await
ResumeStep(h, fetchOk, secondOk) ==
  LET r == req[h]
      v == Awaited(h)
  IN IF pc[h] = "generate"
     THEN (IF r.route = PotteryRoute THEN a2aPotteryRouteResume(h, r, v)
           ELSE a2aAgentRouteResume(h, r, v))
     ELSE IF pc[h] = "background"
     THEN BackgroundResume(h, r, v, fetchOk, secondOk)
     ELSE StreamStep(h, r.agentId, r.id, r.params, fullText[h], v)

Resume(h) ==
  /\ promise[h].state = "settled"
  /\ \E fetchOk, secondOk \in BOOLEAN :
       LET step == ResumeStep(h, fetchOk, secondOk)
           v == Awaited(h)
       IN /\ pc' = [pc EXCEPT ![h] = step.next]
          /\ resp' = [resp EXCEPT ![h] = resp[h] \o step.resp]
          /\ events' = [events EXCEPT ![h] = events[h] \o step.events]
          /\ closed' = [closed EXCEPT ![h] = closed[h] \/ step.closed]
          /\ webhook' = [webhook EXCEPT ![h] = webhook[h] \o step.posts]
          /\ promise' = [promise EXCEPT
                           ![h] = IF step.next = "streaming" THEN Pending
                                  ELSE Consumed(v)]
          /\ fullText' = [fullText EXCEPT
                            ![h] = IF v.kind = "chunk" THEN fullText[h] \o v.text
                                   ELSE fullText[h]]
          /\ nchunks' = [nchunks EXCEPT
                           ![h] = IF v.kind = "chunk" THEN nchunks[h] + 1
                                  ELSE nchunks[h]]
  /\ UNCHANGED << req, lookedUp, calls >>

\* The invocation is over: its locals are gone, the slot serves a new request
Finish(h) ==
  /\ pc[h] = "done"
  /\ pc' = [pc EXCEPT ![h] = "idle"]
  /\ req' = [req EXCEPT ![h] = NoRequest]
  /\ resp' = [resp EXCEPT ![h] = <<>>]
  /\ lookedUp' = [lookedUp EXCEPT ![h] = FALSE]
  /\ calls' = [calls EXCEPT ![h] = <<>>]
  /\ promise' = [promise EXCEPT ![h] = NoPromise]
  /\ events' = [events EXCEPT ![h] = <<>>]
  /\ closed' = [closed EXCEPT ![h] = FALSE]
  /\ fullText' = [fullText EXCEPT ![h] = <<>>]
  /\ nchunks' = [nchunks EXCEPT ![h] = 0]
  /\ webhook' = [webhook EXCEPT ![h] = <<>>]

\* ----------------------------------------------------------- the requests
Routes == {PotteryRoute, AgentRoute}
AgentIds == {"potteryAgent", "weatherAgent"}
JsonRpcs == {Undefined, "2.0", "1.0"}
RequestIds == {Undefined, Null, Zero, EmptyString, "req-1"}
Methods == {Undefined, "message/send", "message/stream", "tasks/get",
            "tasks/cancel", "invalid/method"}

Conversation == << UserMsg("q1"), AgentMsg("a1"), UserMsg("q2") >>

\* Bodies that do not parse, the body null, and every envelope
EnvelopeRequests ==
  { Request(route, a, kind, Undefined, Undefined, Undefined, NoParams) :
      route \in Routes, a \in AgentIds, kind \in {"malformed", "null"} }
  \cup
  { Request(route, a, "object", j, i, m, p) :
      route \in Routes, a \in AgentIds, j \in JsonRpcs, i \in RequestIds,
      m \in Methods,
      p \in {NoParams,
             Params(UserMsg("q1"), NoMessages, "task-1", "session-1", 0, Undefined)} }

\* Well-formed envelopes of a2aPotteryRoute with every kind of params
PotteryRequests ==
  { Request(PotteryRoute, "potteryAgent", "object", "2.0", "req-1", m,
            Params(msg, msgs, id, sid, hl, uid)) :
      m \in {"message/send", "message/stream"},
      msg \in {NoMessage, UserMsg("q1"), Message("user", NoParts)},
      msgs \in {NoMessages, NotAnArray, Messages(<<>>), Messages(Conversation),
                Messages(<< UserMsg("q1"), NullMessage >>)},
      id \in {Undefined, EmptyString, "task-1"},
      sid \in {Undefined, EmptyString, "session-1"},
      hl \in {0, 2}, uid \in {Undefined, "user-1"} }

\* A message as Telex sends it: a garbled text part, and a data part whose
\* last text item is the prompt, in HTML
TelexMsg ==
  Message("user",
          Parts(<< TextPart(<< Tag("p") >> \o Word("garbled") \o << Tag("/p") >>),
                   DataPart(DataArray(
                     << DataItem("text", Word("earlier")),
                        DataItem("text", << Tag("p") >> \o Word("q1")
                                         \o << Nbsp, Space, Tag("/p") >>),
                        DataItem("text", <<>>) >>)) >>))

\* A message whose first data part holds no text item and whose second
\* data part holds the prompt
TwoDataPartsMsg ==
  Message("user",
          Parts(<< TextPart(Word("garbled")),
                   DataPart(DataArray(<< DataItem("file", <<>>) >>)),
                   DataPart(DataArray(<< DataItem("text", Word("q2")) >>)) >>))

\* A message whose last text item is markup only
MarkupOnlyMsg ==
  Message("user",
          Parts(<< TextPart(Word("garbled")),
                   DataPart(DataArray(
                     << DataItem("text", Word("earlier")),
                        DataItem("text", << Tag("p"), Nbsp, Tag("/p") >>) >>)) >>))

WebhookUrl == "https://webhook.example/a2a"

\* Well-formed envelopes of a2aAgentRoute with every kind of params, on
\* runtimes with and without an ExecutionContext
AgentRouteRequests ==
  LET withCtx ==
        { Request(AgentRoute, "potteryAgent", "object", "2.0", "req-1",
                  "message/send",
                  AgentParams(msg, msgs, ctx, task, blocking, url)) :
            msg \in {NoMessage, UserMsg("q1"), TelexMsg, TwoDataPartsMsg,
                     MarkupOnlyMsg},
            msgs \in {NoMessages, Messages(<< UserMsg("q1"), NullMessage >>),
                      Messages(<< UserMsg("q0"), TelexMsg >>)},
            ctx \in {Undefined, "ctx-1"}, task \in {Undefined, "task-1"},
            blocking \in {Undefined, True, False, Null},
            url \in {Undefined, WebhookUrl} }
  IN withCtx \cup { WithoutExecutionCtx(r) : r \in withCtx }

Requests == EnvelopeRequests \cup PotteryRequests \cup AgentRouteRequests

\* --------------------------------------------------------- specifications
\* One invocation at a time, every request
Next ==
  /\ \/ \E r \in Requests : Receive(1, r)
     \/ AgentSettles(1)
     \/ Resume(1)
     \/ Finish(1)
  /\ UNCHANGED << tool, workflow >>

Spec == Init /\ [][Next]_vars

\* Concurrent invocations of message/send on a2aPotteryRoute
\* by two clients, each with or without a session
SendRequests ==
  { Request(PotteryRoute, "potteryAgent", "object", "2.0", "req-1",
            "message/send",
            Params(UserMsg("q1"), NoMessages, Undefined, sid, 0, Undefined)) :
      sid \in {Undefined, "session-1"} }
  \cup
  { Request(PotteryRoute, "potteryAgent", "object", "2.0", "req-2",
            "message/send",
            Params(NoMessage, Messages(Conversation), "task-2", sid, 0, Undefined)) :
      sid \in {Undefined, "session-1"} }

NextConcurrent ==
  /\ \E h \in Handlers :
       \/ \E r \in SendRequests : Receive(h, r)
       \/ AgentSettles(h)
       \/ Resume(h)
       \/ Finish(h)
  /\ UNCHANGED << tool, workflow >>

SpecConcurrent == Init /\ [][NextConcurrent]_vars

\* ------------------------------------------------------- the search tool
\* execute up to its first await, or to its return when Pinecone is not
\* configured
ToolExecute(context, env) ==
  /\ tool.pc = "idle"
  /\ tool' = IF usePinecone(env)
             THEN [ToolIdle EXCEPT !.pc = "embedding", !.context = context,
                                   !.env = env, !.embedding = "pending"]
             ELSE [ToolIdle EXCEPT !.pc = "returned", !.context = context,
                                   !.env = env,
                                   !.results = searchMockKnowledge(
                                                 context.query, context.maxResults)]
  /\ UNCHANGED << routeVars, workflow >>

\* openai.embeddings.create settles: with an embedding, with an empty data
\* array (reading data[0].embedding throws), or rejected
EmbeddingOutcomes == {"ok", "empty", "throws"}

ToolEmbeddingSettles(outcome) ==
  /\ tool.pc = "embedding"
  /\ tool' = IF outcome = "ok"
             THEN [tool EXCEPT !.pc = "querying", !.embedding = outcome]
             ELSE [tool EXCEPT !.pc = "returned", !.embedding = outcome,
                               !.results = PineconeCatch(tool.context.query,
                                                         tool.context.maxResults)]
  /\ UNCHANGED << routeVars, workflow >>

\* index.query settles
ToolQuerySettles(queryResponse) ==
  /\ tool.pc = "querying"
  /\ tool' = [tool EXCEPT
                !.pc = "returned", !.queryResponse = queryResponse,
                !.results = IF queryResponse.kind = "throws"
                            THEN PineconeCatch(tool.context.query,
                                               tool.context.maxResults)
                            ELSE PineconeResults(queryResponse)]
  /\ UNCHANGED << routeVars, workflow >>

\* The caller has taken { results, query }
ToolReturn ==
  /\ tool.pc = "returned"
  /\ tool' = ToolIdle
  /\ UNCHANGED << routeVars, workflow >>

\* The inputs of the tool
Queries ==
  {"What CLAY types exist", "clay wheel glaze firing tools", " how to fix it",
   "Glazing"}

MaxResultsValues == {-1, 0, 1, 3, 9}

Contexts == {[query |-> q, maxResults |-> m] : q \in Queries, m \in MaxResultsValues}

Envs == {Env(k, i) : k \in {Undefined, "pc-key"}, i \in {Undefined, "pottery-knowledge"}}

ScoreValues == {0, 600, 650, 900}

MetadataAt(i) ==
  {NoMetadata,
   Metadata("Match " \o NumberToString(i), "", "",
            "Description " \o NumberToString(i), "", "", "glazes", "kb"),
   Metadata("", "", "Term " \o NumberToString(i), "",
            "Lede " \o NumberToString(i), "", "", "")}

MatchesAt(i) ==
  {Match(FALSE, 0, md) : md \in MetadataAt(i)}
  \cup {Match(TRUE, sc, md) : sc \in ScoreValues, md \in MetadataAt(i)}

RECURSIVE MatchLists(_)
MatchLists(n) ==
  IF n = 0 THEN {<<>>}
  ELSE {Append(ms, m) : ms \in MatchLists(n - 1), m \in MatchesAt(n)}

QueryResponses ==
  {QueryThrows, NoMatchesMember}
  \cup {QueryResponse(ms) : ms \in UNION {MatchLists(n) : n \in 0 .. MaxMatches}}

NextTool ==
  \/ \E context \in Contexts, env \in Envs : ToolExecute(context, env)
  \/ \E outcome \in EmbeddingOutcomes : ToolEmbeddingSettles(outcome)
  \/ \E queryResponse \in QueryResponses : ToolQuerySettles(queryResponse)
  \/ ToolReturn

SpecTool == Init /\ [][NextTool]_vars

\* ----------------------------------------------------------- the workflow
\* Step 1, categorizeQuery
WorkflowCategorize(question) ==
  /\ workflow.pc = "idle"
  /\ workflow' = [WorkflowIdle EXCEPT
                    !.pc = "categorized",
                    !.categorized = categorizeQuery([question |-> question])]
  /\ UNCHANGED << routeVars, tool >>

\* Step 2, searchKnowledge, up to `await openai.embeddings.create(...)`
WorkflowSearchStarts ==
  /\ workflow.pc = "categorized"
  /\ workflow' = [workflow EXCEPT !.pc = "embedding", !.embedding = "pending"]
  /\ UNCHANGED << routeVars, tool >>

\* The embedding call settles; a failure is caught
WorkflowEmbeddingSettles(outcome) ==
  /\ workflow.pc = "embedding"
  /\ workflow' = IF outcome = "ok"
                 THEN [workflow EXCEPT !.pc = "querying", !.embedding = outcome]
                 ELSE [workflow EXCEPT !.pc = "searched", !.embedding = outcome,
                                       !.results = WorkflowSearchFailed,
                                       !.query = workflow.categorized.question]
  /\ UNCHANGED << routeVars, tool >>

\* The vector query settles; a failure is caught
WorkflowQuerySettles(queryResponse) ==
  /\ workflow.pc = "querying"
  /\ workflow' = [workflow EXCEPT
                    !.pc = "searched", !.queryResponse = queryResponse,
                    !.results = IF queryResponse.kind = "throws"
                                THEN WorkflowSearchFailed
                                ELSE WorkflowResults(queryResponse),
                    !.query = workflow.categorized.question]
  /\ UNCHANGED << routeVars, tool >>

\* Step 3, formatResponse
WorkflowFormat ==
  /\ workflow.pc = "searched"
  /\ workflow' = [workflow EXCEPT
                    !.pc = "formatted",
                    !.output = formatResponse([results |-> workflow.results,
                                               query |-> workflow.query])]
  /\ UNCHANGED << routeVars, tool >>

\* The run is over
WorkflowDone ==
  /\ workflow.pc = "formatted"
  /\ workflow' = WorkflowIdle
  /\ UNCHANGED << routeVars, tool >>

Questions == {"How do I glaze a pot?", "What CLAY is best", "hello there"}

\* A match whose description quotes a result of an earlier answer
QuotingMatch ==
  Match(TRUE, 900,
        Metadata("Glaze notes", "", "", "As [Result 2] said, thin the glaze",
                 "", "", "", ""))

WorkflowQueryResponses ==
  QueryResponses \cup {QueryResponse(<< QuotingMatch >>)}

NextWorkflow ==
  \/ \E question \in Questions : WorkflowCategorize(question)
  \/ WorkflowSearchStarts
  \/ \E outcome \in EmbeddingOutcomes : WorkflowEmbeddingSettles(outcome)
  \/ \E queryResponse \in WorkflowQueryResponses :
       WorkflowQuerySettles(queryResponse)
  \/ WorkflowFormat
  \/ WorkflowDone

SpecWorkflow == Init /\ [][NextWorkflow]_vars

\* ================================================================= claims
\* The JSON-RPC object handed to c.json by invocation h, when it returned one
Returned(h) == Len(resp[h]) = 1 /\ "jsonrpc" \in DOMAIN resp[h][1].body

IsError(body) == "error" \in DOMAIN body
IsResult(body) == "result" \in DOMAIN body

ErrorCode(h) == resp[h][1].body.error.code

\* The invocation serves a request of a2aPotteryRoute whose body parsed
ParsedByPottery(h) ==
  req[h].route = PotteryRoute /\ req[h].bodyKind \in {"object", "null"}

\* ... with a well-formed envelope, addressed to a registered agent
ValidForPottery(h) ==
  /\ req[h].route = PotteryRoute
  /\ req[h].bodyKind = "object"
  /\ ~InvalidEnvelope(req[h])
  /\ req[h].agentId \in RegisteredAgents

AnsweredWith(h, code) ==
  Returned(h) /\ IsError(resp[h][1].body) /\ ErrorCode(h) = code

\* C1: every parsed body whose jsonrpc is not "2.0" or whose id is missing or
\* falsy is answered by a2aPotteryRoute with the JSON-RPC error -32600, and
\* neither mastra.getAgent nor agent.generate / agent.stream is called for it.
\* (Stated as the claim states it; the body null refutes it.)
C1_InvalidEnvelopeIsInvalidRequest ==
  \A h \in Handlers :
    (ParsedByPottery(h) /\ InvalidEnvelope(req[h]))
      => /\ AnsweredWith(h, -32600)
         /\ ~lookedUp[h]
         /\ calls[h] = <<>>

\* C1, for the bodies that are JSON objects: there the claim holds
C1_ObjectBodyInvalidEnvelope ==
  \A h \in Handlers :
    (ParsedByPottery(h) /\ req[h].bodyKind = "object" /\ InvalidEnvelope(req[h]))
      => /\ AnsweredWith(h, -32600)
         /\ ~lookedUp[h]
         /\ calls[h] = <<>>

\* C1, whatever the parsed body: the agent is neither looked up nor called
C1_InvalidEnvelopeNeverReachesAgent ==
  \A h \in Handlers :
    (ParsedByPottery(h) /\ InvalidEnvelope(req[h]))
      => (~lookedUp[h] /\ calls[h] = <<>>)

SupportedMethods ==
  {"message/send", "message/stream", "tasks/get", "tasks/cancel"}

\* C2: a request of a2aPotteryRoute with a valid envelope, addressed to an
\* existing agent, whose method is none of the four supported ones, is
\* answered with the JSON-RPC error -32601 carrying the request id, and the
\* agent is never invoked.
C2_UnknownMethodIsMethodNotFound ==
  \A h \in Handlers :
    (ValidForPottery(h) /\ req[h].method \notin SupportedMethods)
      => /\ AnsweredWith(h, -32601)
         /\ resp[h][1].body.id = req[h].id
         /\ calls[h] = <<>>
         /\ pc[h] = "done"

C2_Witness ==
  \E h \in Handlers :
    /\ ValidForPottery(h)
    /\ req[h].method = "invalid/method"
    /\ AnsweredWith(h, -32601)

\* C3: a message/send request of a2aPotteryRoute whose params hold neither a
\* truthy message nor an array messages (absent params included) is answered
\* with the JSON-RPC error -32602 carrying the request id, and agent.generate
\* is never called for it.
C3_SendWithoutMessagesIsInvalidParams ==
  \A h \in Handlers :
    (/\ ValidForPottery(h)
     /\ req[h].method = "message/send"
     /\ req[h].params.message.kind # "object"
     /\ req[h].params.messages.kind # "array")
      => /\ AnsweredWith(h, -32602)
         /\ resp[h][1].body.id = req[h].id
         /\ calls[h] = <<>>
         /\ pc[h] = "done"

C3_Witness ==
  \E h \in Handlers :
    /\ ValidForPottery(h)
    /\ req[h].method = "message/send"
    /\ req[h].params.kind = "undefined"
    /\ AnsweredWith(h, -32602)

\* The requests of claim C4: rejected for a missing jsonrpc, a missing id, an
\* unknown method, or message/send without message / messages
RejectedByValidation(h) ==
  /\ Returned(h)
  /\ IsError(resp[h][1].body)
  /\ (\/ ErrorCode(h) \in {-32600, -32601}
      \/ (ErrorCode(h) = -32602 /\ req[h].method = "message/send"
          /\ req[h].agentId \in RegisteredAgents))

\* C4: these rejections carry their JSON-RPC error in a response with a
\* success HTTP status, not HTTP 400.
C4_RejectionsHaveSuccessStatus ==
  \A h \in Handlers :
    (req[h].route = PotteryRoute /\ RejectedByValidation(h))
      => resp[h][1].status \in 200 .. 299

\* C5: a request whose body is not parseable JSON is rejected with HTTP 400.
C5_MalformedBodyIsStatus400 ==
  \A h \in Handlers :
    (req[h].route = PotteryRoute /\ req[h].bodyKind = "malformed")
      => (Len(resp[h]) = 1 /\ resp[h][1].status = 400)

\* A JSON-RPC object: jsonrpc "2.0" and exactly one of result and error
WellFormed(o) ==
  /\ "jsonrpc" \in DOMAIN o
  /\ o.jsonrpc = "2.0"
  /\ (IsResult(o) /\ ~IsError(o)) \/ (IsError(o) /\ ~IsResult(o))

\* The bodies that are no JSON-RPC objects: the event stream, and the
\* nothing that a handler returning undefined hands over
IsJsonRpcBody(body) == body # SseResponse.body /\ body # NothingReturned.body

\* C6: every JSON-RPC object a route emits (the body of an HTTP response,
\* each SSE event of message/stream, each webhook payload) has jsonrpc "2.0"
\* and exactly one of the members result and error.
C6_EmittedObjectsAreWellFormed ==
  \A h \in Handlers :
    /\ \A i \in 1 .. Len(resp[h]) :
         IsJsonRpcBody(resp[h][i].body) => WellFormed(resp[h][i].body)
    /\ \A i \in 1 .. Len(events[h]) : WellFormed(events[h][i])
    /\ \A i \in 1 .. Len(webhook[h]) : WellFormed(webhook[h][i].payload)

\* A stream that ended with the error event after two chunk events
C6_Witness ==
  \E h \in Handlers :
    /\ Len(events[h]) = 4
    /\ IsResult(events[h][1])
    /\ IsResult(events[h][3])
    /\ IsError(events[h][4])
    /\ closed[h]

\* The agent call of h has returned (resolved, not rejected) and the
\* continuation of h has run
AgentReturned(h) ==
  promise[h].state = "consumed" /\ promise[h].value.kind = "response"

\* C7: when message/send is given at least one message and the agent call
\* returns, the response is a JSON-RPC result with the request's id whose
\* result has a non-empty id and contextId, status.state 'completed', a
\* status.timestamp, a status.message of role 'agent' and kind 'task'; and
\* result.id is params.id when one (a truthy one) was supplied.
C7_SendResultShape ==
  \A h \in Handlers :
    (/\ ValidForPottery(h)
     /\ req[h].method = "message/send"
     /\ Len(MessagesList(req[h].params)) >= 1
     /\ AgentReturned(h))
      => /\ Returned(h)
         /\ resp[h][1].status = 200
         /\ IsResult(resp[h][1].body)
         /\ ~IsError(resp[h][1].body)
         /\ resp[h][1].body.id = req[h].id
         /\ LET task == resp[h][1].body.result
            IN /\ Truthy(task.id)
               /\ Truthy(task.contextId)
               /\ task.status.state = "completed"
               /\ "timestamp" \in DOMAIN task.status
               /\ Truthy(task.status.timestamp)
               /\ task.status.message.role = "agent"
               /\ task.kind = "task"
               /\ Truthy(req[h].params.id) => task.id = req[h].params.id

C7_Witness ==
  \E h \in Handlers :
    /\ ValidForPottery(h)
    /\ req[h].method = "message/send"
    /\ Len(MessagesList(req[h].params)) = 3
    /\ req[h].params.id = "task-1"
    /\ AgentReturned(h)
    /\ Returned(h)
    /\ resp[h][1].body.result.id = "task-1"

\* message/send of a2aPotteryRoute has called agent.generate for h
Dispatched(h) ==
  /\ req[h].route = PotteryRoute
  /\ req[h].method = "message/send"
  /\ Len(calls[h]) = 1

\* C8: all message/send requests that carry the same (truthy) sessionId are
\* dispatched to the agent with the same threadId, that sessionId, and each
\* of their results reports contextId and sessionId equal to it, whatever
\* params.id is and whatever the other invocations do.
C8_SessionKeysTheThread ==
  /\ \A g, h \in Handlers :
       (/\ Dispatched(g) /\ Dispatched(h)
        /\ Truthy(req[g].params.sessionId)
        /\ req[g].params.sessionId = req[h].params.sessionId)
         => /\ calls[g][1].threadId = calls[h][1].threadId
            /\ calls[g][1].threadId = req[g].params.sessionId
  /\ \A h \in Handlers :
       (Dispatched(h) /\ Truthy(req[h].params.sessionId) /\ AgentReturned(h))
         => /\ Returned(h)
            /\ IsResult(resp[h][1].body)
            /\ resp[h][1].body.result.contextId = req[h].params.sessionId
            /\ resp[h][1].body.result.sessionId = req[h].params.sessionId

\* Two answered requests of one session with different params.id
C8_Witness ==
  \E g, h \in Handlers :
    /\ g # h
    /\ Dispatched(g) /\ Dispatched(h)
    /\ req[g].params.sessionId = "session-1"
    /\ req[h].params.sessionId = "session-1"
    /\ req[g].params.id = Undefined
    /\ req[h].params.id = "task-2"
    /\ AgentReturned(g) /\ AgentReturned(h)
    /\ resp[g][1].body.result.contextId = "session-1"
    /\ resp[h][1].body.result.contextId = "session-1"

\* Everything invocation h holds
Slot(h) ==
  << pc[h], req[h], resp[h], lookedUp[h], calls[h], promise[h], events[h],
     closed[h], fullText[h], nchunks[h], webhook[h] >>

\* The text of the agent message in the result returned by h
ReturnedText(h) == resp[h][1].body.result.status.message.parts.items[1].text

\* A step touches the state of at most one invocation
OneInvocationPerStep ==
  \A g, h \in Handlers : Slot(g)' # Slot(g) /\ Slot(h)' # Slot(h) => g = h

\* No invocation returns twice; a finished one has returned once; and when
\* its agent call has returned, the result has the id of its own request
\* and the text the agent wrote for the call made from its own messages
OwnResponse(h) ==
  /\ Len(resp[h]) <= 1
  /\ pc[h] = "done" => Len(resp[h]) = 1
  /\ (Dispatched(h) /\ AgentReturned(h))
       => /\ Returned(h)
          /\ IsResult(resp[h][1].body)
          /\ resp[h][1].body.id = req[h].id
          /\ calls[h][1].messages
               = << systemContext >> \o MastraMessages(MessagesList(req[h].params))
          /\ ReturnedText(h) \in {AgentAnswer(calls[h][1]), <<>>}

IsProcessing(e) == IsResult(e) /\ e.result.status.state = "processing"
IsStreaming(e) == IsResult(e) /\ e.result.status.state = "streaming"
IsCompleted(e) == IsResult(e) /\ e.result.status.state = "completed"
IsStreamingError(e) ==
  IsError(e) /\ e.error.code = -32603 /\ e.error.message = << "Streaming error" >>
IsTerminal(e) == IsCompleted(e) \/ IsStreamingError(e)

\* message/stream of a2aPotteryRoute has opened the stream of h
StreamOpened(h) == pc[h] \in {"streamOpen", "streaming"} \/ Len(events[h]) > 0

\* The order of the events of h: 'processing' first and only first, then
\* 'streaming' events, a terminal event only in the last place; the stream
\* is closed exactly when the terminal event is there, and a finished
\* start() has closed it
StreamOrder(h) ==
  LET ev == events[h]
      n == Len(ev)
  IN /\ n >= 1
     /\ IsProcessing(ev[1])
     /\ \A i \in 2 .. n : IsStreaming(ev[i]) \/ (i = n /\ IsTerminal(ev[i]))
     /\ closed[h] <=> IsTerminal(ev[n])
     /\ pc[h] = "done" => closed[h]
     /\ ~(\E i, j \in 1 .. n : IsCompleted(ev[i]) /\ IsStreamingError(ev[j]))

\* Nothing is enqueued on a closed stream
ClosedStreamIsSilent ==
  \A h \in Handlers :
    (closed[h] /\ pc'[h] # "idle") => events'[h] = events[h] /\ closed'[h]

DoneMarker == [marker |-> "[DONE]"]

\* C11: a message/stream stream that succeeded ends with an explicit
\* `data: [DONE]` marker, enqueued after the completion event and before the
\* stream is closed.
C11_CompletedStreamEndsWithDone ==
  \A h \in Handlers :
    (closed[h] /\ \E i \in 1 .. Len(events[h]) : IsCompleted(events[h][i]))
      => /\ Len(events[h]) >= 2
         /\ events[h][Len(events[h])] = DoneMarker
         /\ IsCompleted(events[h][Len(events[h]) - 1])

\* The tool has returned, and by which way
ToolReturned == tool.pc = "returned"
PineconeConfigured == usePinecone(tool.env)
PineconeFailed ==
  /\ PineconeConfigured
  /\ tool.embedding \in {"empty", "throws"} \/ tool.queryResponse.kind = "throws"
PineconeAnswered ==
  /\ PineconeConfigured
  /\ tool.embedding = "ok"
  /\ tool.queryResponse.kind = "response"
FellBack == ~PineconeConfigured \/ PineconeFailed

\* C12: the pottery search tool never propagates an exception: whenever
\* Pinecone is not configured (PINECONE_API_KEY or PINECONE_INDEX_NAME unset)
\* or the Pinecone path throws at any step (the embedding call or the vector
\* query), the execution ends by returning, and its results are what the
\* mock keyword search returns for the same query and maxResults.
C12_ToolFallsBackToMockSearch ==
  /\ tool.pc \in {"idle", "embedding", "querying", "returned"}
  /\ (tool.pc # "idle" /\ ~PineconeConfigured) => ToolReturned
  /\ (tool.pc # "idle" /\ PineconeFailed) => ToolReturned
  /\ (ToolReturned /\ FellBack)
       => tool.results = searchMockKnowledge(tool.context.query,
                                             tool.context.maxResults)

\* The vector query rejected and the mock search answered with results
C12_Witness ==
  /\ ToolReturned
  /\ PineconeConfigured
  /\ tool.embedding = "ok"
  /\ tool.queryResponse.kind = "throws"
  /\ tool.context.query = "What CLAY types exist"
  /\ tool.context.maxResults = 3
  /\ countResultTags(tool.results) = 3

\* The matches of the response that score strictly above 0.6, in order
Qualifies(match) == match.hasScore /\ match.score > 600
Qualifying == SelectSeq(tool.queryResponse.matches, Qualifies)

\* Match j of the response appears in the results, under some number
Included(j) ==
  \E i \in 1 .. Len(tool.queryResponse.matches) :
    includes(tool.results, PineconeBlock(tool.queryResponse.matches[j], i))

MockAnswered == ToolReturned /\ ~PineconeConfigured

\* C15: for every query and every numeric maxResults the input schema
\* accepts (0, negative and above 8 included) the mock keyword search
\* returns at most maxResults results.
C15_MockReturnsAtMostMaxResults ==
  MockAnswered => countResultTags(tool.results) <= tool.context.maxResults

\* The score the claim gives snippet n for a query: over the pieces of the
\* lowercased query between whitespace that are longer than 3 characters,
\* 3 when the lowercased topic contains the piece plus 1 when the
\* lowercased content does
RECURSIVE KeywordSum(_, _, _)
KeywordSum(words, k, n) ==
  IF k = 0 THEN 0
  ELSE KeywordSum(words, k - 1, n)
       + (IF Len(words[k]) > 3
          THEN (IF includes(toLowerCase(potteryKnowledge[n].topic), words[k])
                THEN 3 ELSE 0)
               + (IF includes(toLowerCase(potteryKnowledge[n].content), words[k])
                  THEN 1 ELSE 0)
          ELSE 0)

KeywordScores(query) ==
  LET words == splitOnWhitespace(toLowerCase(query))
  IN [n \in 1 .. Len(potteryKnowledge) |-> KeywordSum(words, Len(words), n)]

\* The snippets that score above 0, highest score first, ties in the order
\* of the knowledge base
Ranking(scores) ==
  LET scoring == {n \in DOMAIN scores : scores[n] > 0}
      before(n) == {m \in scoring : scores[m] > scores[n]
                                    \/ (scores[m] = scores[n] /\ m < n)}
  IN [r \in 1 .. Cardinality(scoring) |->
        CHOOSE n \in scoring : Cardinality(before(n)) = r - 1]

RankedBlocks(ranking, count) ==
  join([i \in 1 .. count |->
          "[Result " \o NumberToString(i) \o "] "
          \o potteryKnowledge[ranking[i]].topic \o ":\n"
          \o potteryKnowledge[ranking[i]].content], "\n\n")

\* C20: the mock keyword search scores each of the eight snippets as the
\* sum, over the whitespace-separated lowercased query words longer than 3
\* characters, of 3 if the lowercased topic contains the word plus 1 if the
\* lowercased content contains it; it returns exactly the snippets with
\* score > 0 in non-increasing score order (ties in knowledge-base order),
\* and the fixed 'No relevant information found ...' message when no
\* snippet scores above 0.
C20_MockReturnsEveryScoringSnippet ==
  MockAnswered
    => LET ranking == Ranking(KeywordScores(tool.context.query))
       IN tool.results = IF Len(ranking) = 0 THEN NoRelevantInformation
                         ELSE RankedBlocks(ranking, Len(ranking))

\* C20 (amended): the scoring and the order are as stated, and the search
\* returns the ranked snippets cut by slice(0, maxResults): the first
\* maxResults of them when maxResults is 0 or more, all but the last
\* -maxResults of them when it is negative; the fixed message is returned
\* when nothing is left, which is also the case when no snippet scores
\* above 0.
C20_MockReturnsRankedSnippetsCut ==
  MockAnswered
    => LET ranking == Ranking(KeywordScores(tool.context.query))
           maxResults == tool.context.maxResults
           cut == IF maxResults >= 0 THEN maxResults
                  ELSE Len(ranking) + maxResults
           count == IF cut < 0 THEN 0
                    ELSE IF cut > Len(ranking) THEN Len(ranking) ELSE cut
       IN tool.results = IF count = 0 THEN NoRelevantInformation
                         ELSE RankedBlocks(ranking, count)

\* A query of four long words ranks seven snippets, two of them tied, and
\* the first three are returned
C20_Witness ==
  /\ MockAnswered
  /\ tool.context.query = "What CLAY types exist"
  /\ tool.context.maxResults = 3
  /\ KeywordScores(tool.context.query) = << 8, 1, 0, 1, 1, 4, 1, 1 >>
  /\ tool.results = RankedBlocks(<< 1, 6, 2 >>, 3)

\* The matches of the workflow's query that score above 0.6
WorkflowQualifying ==
  SelectSeq(workflow.queryResponse.matches, Qualifies)

\* The vector search of the run failed
WorkflowSearchThrew ==
  workflow.embedding \in {"empty", "throws"}
  \/ workflow.queryResponse.kind = "throws"

\* C18: the workflow's output `sources` is the number of search results in
\* its answer: the number of Pinecone matches whose score is greater than
\* 0.6, and 0 when the search returned no qualifying match or failed; and
\* the workflow does not fail because the vector search failed.
C18_SourcesCountsTheResults ==
  /\ workflow.pc \in {"idle", "categorized", "embedding", "querying",
                      "searched", "formatted"}
  /\ workflow.pc = "formatted"
       => workflow.output.sources
            = IF WorkflowSearchThrew THEN 0 ELSE Len(WorkflowQualifying)

\* Invocation h serves a request of a2aAgentRoute that passed the envelope
\* check and the agent lookup and asked not to be waited for
NonBlocking(h) ==
  /\ req[h].route = AgentRoute
  /\ req[h].bodyKind = "object"
  /\ ~InvalidEnvelope(req[h])
  /\ req[h].agentId \in RegisteredAgents
  /\ req[h].params.blocking = False

\* C16: for a request with configuration.blocking = false the HTTP response
\* of the handler is the JSON-RPC result {message: 'Accepted for
\* processing'} with the request id, returned before the agent's generation
\* and the webhook POST complete.
C16_NonBlockingIsAccepted ==
  \A h \in Handlers :
    (NonBlocking(h) /\ req[h].executionCtx
     /\ ~PromptText(MessagesList(req[h].params)).threw)
      => /\ Len(resp[h]) = 1
         /\ resp[h][1].body = AcceptedObject(req[h].id)

\* The background task of h has run to its end
BackgroundDone(h) ==
  /\ NonBlocking(h)
  /\ Truthy(req[h].params.webhookUrl)
  /\ Len(calls[h]) = 1
  /\ promise[h].state = "consumed"

IsPromptItem(msg, d, t) ==
  /\ msg.kind = "object"
  /\ msg.parts.kind = "array"
  /\ d \in 1 .. Len(msg.parts.items)
  /\ msg.parts.items[d].kind = "data"
  /\ msg.parts.items[d].data.kind = "array"
  /\ t \in 1 .. Len(msg.parts.items[d].data.items)
  /\ msg.parts.items[d].data.items[t].kind = "text"
  /\ Len(msg.parts.items[d].data.items[t].text) > 0

MaxParts == 3
MaxItems == 3

\* The last text item of data array d of a message, stripped
LastItemStripped(msg, d) ==
  LET t == CHOOSE t \in 1 .. MaxItems :
             /\ IsPromptItem(msg, d, t)
             /\ \A u \in t + 1 .. MaxItems : ~IsPromptItem(msg, d, u)
  IN stripHtml(msg.parts.items[d].data.items[t].text)

\* The agent of a2aAgentRoute was called by h
AgentRouteCalled(h) == req[h].route = AgentRoute /\ Len(calls[h]) = 1

\* C19: a2aAgentRoute passes exactly one message, of role 'user', to the
\* agent.  Whenever an input message has a part of kind 'data' whose data
\* array holds a text item with non-empty text, the content is the
\* HTML-stripped text of the last text item of that data array; the
\* fallback, the newline-joined stripped text of the parts of kind 'text',
\* is used only when no input message has such an item.
C19_PromptIsLastDataText ==
  \A h \in Handlers :
    AgentRouteCalled(h)
      => LET list == MessagesList(req[h].params)
             sources == {<< i, d >> \in (1 .. Len(list)) \X (1 .. MaxParts) :
                           \E t \in 1 .. MaxItems : IsPromptItem(list[i], d, t)}
         IN /\ Len(calls[h][1].messages) = 1
            /\ calls[h][1].messages[1].role = "user"
            /\ IF sources # {}
               THEN \E src \in sources :
                      calls[h][1].messages[1].content
                        = LastItemStripped(list[src[1]], src[2])
               ELSE calls[h][1].messages[1].content = FallbackPrompt(list)

\* C19 (amended): a2aAgentRoute passes exactly one message, of role 'user'.
\* Only the first part of kind 'data' with an array of each message is
\* looked at, and the messages in order: the first message whose first
\* data part holds a text item with non-empty text decides, and the
\* content is the HTML-stripped text of the last such item of that part,
\* unless stripping leaves nothing.  The fallback is used when no message
\* has such an item in its first data part, and also when the stripped text
\* is empty.
C19_PromptIsLastTextOfFirstDataPart ==
  \A h \in Handlers :
    AgentRouteCalled(h)
      => LET list == MessagesList(req[h].params)
             firstData(i) ==
               IF list[i].parts.kind # "array" THEN {}
               ELSE {d \in 1 .. Len(list[i].parts.items) :
                       /\ list[i].parts.items[d].kind = "data"
                       /\ list[i].parts.items[d].data.kind = "array"
                       /\ \A e \in 1 .. d - 1 :
                            ~(list[i].parts.items[e].kind = "data"
                              /\ list[i].parts.items[e].data.kind = "array")}
             decides(i) ==
               \E d \in firstData(i) :
                 \E t \in 1 .. MaxItems : IsPromptItem(list[i], d, t)
             deciding == {i \in 1 .. Len(list) :
                            decides(i) /\ \A j \in 1 .. i - 1 : ~decides(j)}
             stripped(i) ==
               LastItemStripped(list[i], CHOOSE d \in firstData(i) : TRUE)
         IN /\ Len(calls[h][1].messages) = 1
            /\ calls[h][1].messages[1].role = "user"
            /\ calls[h][1].messages[1].content
                 = IF \E i \in deciding : Len(stripped(i)) > 0
                   THEN stripped(CHOOSE i \in deciding : TRUE)
                   ELSE FallbackPrompt(list)

\* The second message of the list decides: its data part gives the prompt
C19_Witness ==
  \E h \in Handlers :
    /\ AgentRouteCalled(h)
    /\ req[h].params.messages = Messages(<< UserMsg("q0"), TelexMsg >>)
    /\ req[h].params.message = NoMessage
    /\ calls[h][1].messages = << [role |-> "user", content |-> Word("q1")] >>

====
